---- MODULE Spec2Model ----
(***************************************************************************)
(* Model of src/server.js: an Express application over a MongoDB document  *)
(* store and the Cloudinary media host.                                    *)
(*                                                                         *)
(* State: the module-level `db` handle, the five collections of the store, *)
(* the files held by the media host, the http.Server objects created by    *)
(* startServer, the listeners registered on `process`, the process itself  *)
(* and the position of seedAdmin.  `last` records the exchange completed   *)
(* by the latest step when that step was a route (parameter, status, body  *)
(* and the calls the handler issued); it is an observation, not program    *)
(* state, and every other step clears it.                                  *)
(*                                                                         *)
(* A request is handled in one action: the connection is accepted by the   *)
(* listening server (Accept), then one route action draws the request's    *)
(* input and runs the middleware and the handler to the response.          *)
(* Documents carry _id and image only; the submitted fields (...req.body)  *)
(* and createdAt are read by no handler and are left out.                  *)
(***************************************************************************)
EXTENDS Integers, Sequences, FiniteSets, TLC

VARIABLES
    expressMajor,   \* major version of the installed express package (4 or 5)
    db,             \* `let db`: "undefined" until client.connect() resolves
    collections,    \* the document store: collection name -> set of documents
    cloudinary,     \* public_ids of the files the media host holds
    nextId,         \* ObjectIds generated so far (driver's increasing counter)
    nextFile,       \* files uploaded so far (media host's public_id counter)
    servers,        \* http.Server objects, one per startServer call
    listeners,      \* process 'unhandledRejection' listeners, in registration order
    proc,           \* the process: running or exited (code, cause)
    signalled,      \* a SIGTERM/SIGINT has been delivered
    forceTimer,     \* the 10 s setTimeout of shutdown is armed
    seed,           \* position of seedAdmin
    last            \* the most recently completed exchange

vars == <<expressMajor, db, collections, cloudinary, nextId, nextFile, servers,
          listeners, proc, signalled, forceTimer, seed, last>>

-----------------------------------------------------------------------------
(* Bounds *)

MaxDocs == 2            \* documents inserted through the API, in total
MaxUploads == 1         \* files stored in the media host, in total
MaxPortConflicts == 1   \* EADDRINUSE failures per process start
MaxConnections == 1     \* connections open at once on a server

-----------------------------------------------------------------------------
(* Program constants *)

PORT == 3000
ObjectIdHexLen == 24
MiB == 1024 * 1024
FileSizeLimit == 5 * MiB
AllowedFormats == {"jpg", "jpeg", "png", "gif"}
AdminEmail == "admin@admin.com"
AdminPassword == "admin"
JwtSecret == "jwt-secret"
JwtExpiresIn == "100d"

Undefined == "<undefined>"
Resources == {"services", "banners", "faqs", "galleries"}
CollectionNames == Resources \cup {"users"}

-----------------------------------------------------------------------------
(* ObjectId strings: ObjectId.isValid of line 161 and new ObjectId(string)  *)
(* of lines 165, 178, 219, 256 and 304 (mongodb driver)                     *)

HexChars ==
    <<"0", "1", "2", "3", "4", "5", "6", "7", "8", "9", "a", "b", "c", "d", "e", "f">>
UpperHexChars ==
    <<"0", "1", "2", "3", "4", "5", "6", "7", "8", "9", "A", "B", "C", "D", "E", "F">>

HexPositions(c) == {k \in 1..Len(HexChars) : c = HexChars[k] \/ c = UpperHexChars[k]}
IsHexChar(c) == HexPositions(c) # {}
DigitValue(c) == (CHOOSE k \in HexPositions(c) : TRUE) - 1

\* ObjectId.isValid on a string: ObjectIdHexLen characters, all hex digits of
\* either case.
isValid(s) ==
    /\ Len(s) = ObjectIdHexLen
    /\ \A k \in 1..Len(s) : IsHexChar(s[k])

\* new ObjectId(string) on a valid string: the bytes it denotes, as a number.
RECURSIVE ParseHex(_)
ParseHex(s) ==
    IF Len(s) = 0 THEN 0
    ELSE Len(HexChars) * ParseHex(SubSeq(s, 1, Len(s) - 1)) + DigitValue(s[Len(s)])

\* ObjectId.prototype.toHexString: w lower-case digits.
RECURSIVE ToHex(_, _)
ToHex(n, w) ==
    IF w = 0 THEN <<>>
    ELSE Append(ToHex(n \div Len(HexChars), w - 1), HexChars[(n % Len(HexChars)) + 1])

\* The request parameters tried: the string of every ObjectId the driver can
\* have generated, a well-formed upper-case string, and two malformed ones
\* (one character short; a character that is no hex digit).
WellFormedIds ==
    {ToHex(n, ObjectIdHexLen) : n \in 0..(MaxDocs - 1)} \cup
    {[k \in 1..ObjectIdHexLen |-> IF k = ObjectIdHexLen THEN "F" ELSE "0"]}
MalformedIds ==
    { [k \in 1..(ObjectIdHexLen - 1) |-> "0"],
      [k \in 1..ObjectIdHexLen |-> IF k = 1 THEN "g" ELSE "0"] }
ReqIds == WellFormedIds \cup MalformedIds

-----
(* Response shaping *)

\* sendResponse(res, status, data), lines 62-68.
sendResponse(status, data) ==
    [ status  |-> status,
      result  |-> data,
      message |-> IF "message" \in DOMAIN data THEN data.message ELSE Undefined ]

\* res.json(obj): JSON.stringify drops a property whose value is undefined.
json(obj) ==
    IF "message" \in DOMAIN obj /\ obj.message = Undefined
    THEN [k \in (DOMAIN obj) \ {"message"} |-> obj[k]]
    ELSE obj

NoBody == [format |-> "none"]
JsonBody(obj) == [format |-> "json", json |-> json(obj)]
HtmlBody == [format |-> "html"]
TextBody(t) == [format |-> "text", text |-> t]

\* res.status(s).json(sendResponse(res, s, data))
Enveloped(status, data) ==
    [status |-> status, body |-> JsonBody(sendResponse(status, data))]

\* res.status(s).json({ message: m })
Bare(status, m) ==
    [status |-> status, body |-> JsonBody([message |-> m])]

\* Express's default error handler: err.status when it is a 4xx/5xx code,
\* else 500, with an HTML page.
DefaultErrorHandler(err) ==
    [ status |-> IF "status" \in DOMAIN err /\ err.status >= 400 /\ err.status < 600
                 THEN err.status ELSE 500,
      body |-> HtmlBody ]

-----------------------------------------------------------------------------
(* Process, listeners and servers *)

Running == [state |-> "running", code |-> 0, cause |-> "none", rejection |-> FALSE]

\* process.exit(code), reached through `cause`
Exit(code, cause) ==
    [state |-> "exited", code |-> code, cause |-> cause, rejection |-> FALSE]

NoExchange ==
    [ route |-> "none", param |-> <<>>, status |-> 0, body |-> NoBody,
      handler |-> FALSE, calls |-> <<>>, file |-> 0,
      upload |-> [present |-> FALSE, field |-> "image", size |-> 0, format |-> "none"],
      before |-> [c \in CollectionNames |-> {}] ]

\* The outcomes app.listen(port, '0.0.0.0') can have when `conflicts` binds
\* have already failed with EADDRINUSE in this process.
ListenOutcomes(conflicts) ==
    {"listening", "EACCES"} \cup
    (IF conflicts < MaxPortConflicts THEN {"EADDRINUSE"} ELSE {})

Conflicts(svrs) ==
    Cardinality({i \in 1..Len(svrs) : svrs[i].state \in {"EADDRINUSE", "retried"}})

\* startServer(port), lines 375-422: a new server object whose listen has the
\* given outcome.  Its shutdown closure, its two signal listeners and its
\* 'uncaughtException' listener are the ones of index Len(svrs) + 1.
StartServer(svrs, port, outcome) ==
    Append(svrs, [port |-> port, state |-> outcome, connections |-> 0,
                  closeCb |-> FALSE])

\* The handle of a server is open only while it listens.
HasHandle(srv) == srv.state = "listening"
ErrorPending(srv) == srv.state \in {"EADDRINUSE", "EACCES"}

\* Listener of line 364: reading the identifier `server`, which no enclosing
\* scope declares (the const of line 376 is local to startServer), throws.
ModuleRejectionListener == "ReferenceError"

\* Listener of lines 417-421: logs, and returns.
StartServerRejectionListener == "logged"

RunListener(l) ==
    IF l = "module" THEN ModuleRejectionListener ELSE StartServerRejectionListener

\* process.emit('unhandledRejection'): the listeners run in registration
\* order; one that throws ends the emit, and the exception is uncaught.
RECURSIVE EmitUnhandledRejection(_)
EmitUnhandledRejection(ls) ==
    IF ls = <<>> THEN "logged"
    ELSE IF RunListener(Head(ls)) = "logged" THEN EmitUnhandledRejection(Tail(ls))
    ELSE "uncaughtException"

\* 'uncaughtException' listeners of lines 411-414 (one per startServer call):
\* log and process.exit(1).  With no listener Node prints the error and exits
\* with code 1 as well.
UncaughtException(p) ==
    [state |-> "exited", code |-> 1, cause |-> "uncaughtException",
     rejection |-> p.rejection]

\* The process after a promise rejected with no handler attached;
\* `rejection` records that the event was emitted.
UnhandledRejection(p, ls) ==
    IF EmitUnhandledRejection(ls) = "logged" THEN [p EXCEPT !.rejection = TRUE]
    ELSE UncaughtException([p EXCEPT !.rejection = TRUE])

IsRunning == proc.state = "running"

-----------------------------------------------------------------------------
(* Initial state: the module has been loaded.  connectToMongo() is pending  *)
(* on client.connect(), the module-level listener of line 364 is            *)
(* registered, and startServer(PORT) has run once.                          *)

FreshServers == {StartServer(<<>>, PORT, o) : o \in ListenOutcomes(0)}

Init ==
    /\ expressMajor \in {4, 5}
    /\ db = "undefined"
    /\ collections = [c \in CollectionNames |-> {}]
    /\ cloudinary = {}
    /\ nextId = 0
    /\ nextFile = 0
    /\ servers \in FreshServers
    /\ listeners = <<"module", "startServer">>
    /\ proc = Running
    /\ signalled = FALSE
    /\ forceTimer = FALSE
    /\ seed = "idle"
    /\ last = NoExchange

store == <<collections, cloudinary, nextId, nextFile>>
lifecycle == <<servers, listeners, proc, signalled, forceTimer>>

\* 'error' listener of lines 377-385.
OnListenError(i) ==
    /\ IsRunning
    /\ ErrorPending(servers[i])
    /\ IF servers[i].state = "EADDRINUSE"
       THEN /\ \E o \in ListenOutcomes(Conflicts(servers)) :
                 servers' = StartServer([servers EXCEPT ![i].state = "retried"],
                                        servers[i].port + 1, o)
            /\ listeners' = Append(listeners, "startServer")
            /\ proc' = proc
       ELSE /\ proc' = Exit(1, "listenError")
            /\ UNCHANGED <<servers, listeners>>
    /\ last' = NoExchange
    /\ UNCHANGED <<expressMajor, db, store, signalled, forceTimer, seed>>

\* shutdown(signal) of one startServer call, lines 392-404, on its own server.
Shutdown(srv) ==
    [srv EXCEPT !.state = IF HasHandle(srv) THEN "closing" ELSE @,
                !.closeCb = TRUE]

\* SIGTERM or SIGINT: every registered listener runs (lines 407-408).
Signal(sig) ==
    /\ IsRunning
    /\ \A i \in 1..Len(servers) : ~ErrorPending(servers[i])
    /\ servers' = [i \in 1..Len(servers) |-> Shutdown(servers[i])]
    /\ signalled' = TRUE
    /\ forceTimer' = TRUE
    /\ last' = NoExchange
    /\ UNCHANGED <<expressMajor, db, store, listeners, proc, seed>>

\* net.Server 'close': emitted once close() was called, the handle is gone
\* and no connection is left; the callback of lines 394-397 exits.
CanEmitClose(srv) == srv.closeCb /\ ~HasHandle(srv) /\ srv.connections = 0

EmitClose(i) ==
    /\ IsRunning
    /\ CanEmitClose(servers[i])
    /\ proc' = Exit(0, "serverClosed")
    /\ last' = NoExchange
    /\ UNCHANGED <<expressMajor, db, store, servers, listeners, signalled,
                   forceTimer, seed>>

\* The 10 s timer of lines 400-403 fires.
ForceTimeout ==
    /\ IsRunning
    /\ forceTimer
    /\ proc' = Exit(1, "forceTimer")
    /\ last' = NoExchange
    /\ UNCHANGED <<expressMajor, db, store, servers, listeners, signalled,
                   forceTimer, seed>>

\* The process supervisor starts the program again against the same store.
Restart ==
    /\ proc.state = "exited"
    /\ db' = "undefined"
    /\ servers' \in FreshServers
    /\ listeners' = <<"module", "startServer">>
    /\ proc' = Running
    /\ signalled' = FALSE
    /\ forceTimer' = FALSE
    /\ seed' = "idle"
    /\ last' = NoExchange
    /\ UNCHANGED <<expressMajor, store>>

-----------------------------------------------------------------------------
(* Store connection and admin seed *)

AdminDocs(users) == {u \in users : u.email = AdminEmail}

\* connectToMongo, lines 102-112.
ConnectToMongo(ok) ==
    /\ IsRunning
    /\ db = "undefined"
    /\ seed = "idle"
    /\ IF ok
       THEN /\ db' = "connected"
            /\ seed' = "findOne"
            /\ proc' = proc
       ELSE /\ proc' = Exit(1, "mongoConnectError")
            /\ UNCHANGED <<db, seed>>
    /\ last' = NoExchange
    /\ UNCHANGED <<expressMajor, store, servers, listeners, signalled,
                   forceTimer>>

\* Faulty variant: seedAdmin with no existence guard.  C8 must fail with it.
SeedAfterFind_NoGuard(admin) == "insertOne"

\* The guard of seedAdmin, lines 73-77: what follows the findOne.
SeedAfterFind(admin) == IF admin # {} THEN "exists" ELSE "insertOne"

\* seedAdmin up to its first await and the branch on its result.
SeedFindOne(ok) ==
    /\ IsRunning
    /\ seed = "findOne"
    /\ seed' = IF ok THEN SeedAfterFind(AdminDocs(collections.users)) ELSE "error"
    /\ last' = NoExchange
    /\ UNCHANGED <<expressMajor, db, store, lifecycle>>

\* seedAdmin, lines 78-82.
SeedInsertOne(ok) ==
    /\ IsRunning
    /\ seed = "insertOne"
    /\ IF ok
       THEN /\ collections' =
                 [collections EXCEPT !.users =
                     @ \cup {[email |-> AdminEmail, password |-> AdminPassword,
                              _id |-> Cardinality(@) + 1]}]
            /\ seed' = "seeded"
       ELSE /\ seed' = "error"
            /\ UNCHANGED collections
    /\ last' = NoExchange
    /\ UNCHANGED <<expressMajor, db, cloudinary, nextId, nextFile, lifecycle>>

-----------------------------------------------------------------------------
(* Upload middleware *)

NoFile == [present |-> FALSE, field |-> "image", size |-> 0, format |-> "none"]
GoodFile == [present |-> TRUE, field |-> "image", size |-> MiB, format |-> "png"]
BigFile == [present |-> TRUE, field |-> "image", size |-> 6 * MiB, format |-> "png"]
PdfFile == [present |-> TRUE, field |-> "image", size |-> MiB, format |-> "pdf"]
StrayFile == [present |-> TRUE, field |-> "avatar", size |-> MiB, format |-> "png"]
Files == {NoFile, GoodFile, BigFile, PdfFile, StrayFile}

MsgTooLarge == "File too large. Maximum 5MB allowed."
MsgNoImage == "Please upload an image"
MsgUploadError == "Error uploading file"
MsgUnexpectedField == "Unexpected field"
MsgInvalidId == "Invalid service ID"
MsgNotFound == "Service not found"
MsgInvalidEmail == "Invalid email address"
MsgInvalidPassword == "Invalid password"
MsgDbUndefined == "Cannot read properties of undefined (reading 'collection')"
MsgUserNull == "Cannot read properties of null (reading 'email')"
MsgBson == "input must be a 24 character hex string"
MsgStore == "store error"
MsgDestroy == "destroy failed"

NoError == [code |-> "none", multer |-> FALSE, message |-> ""]

\* upload.single('image') of lines 27-30 on one multipart request: the error
\* it passes on, and whether the file is now stored in the media host.
\* A file cut off at the size limit is removed from the storage by multer.
UploadSingle(file, hostOk) ==
    IF ~file.present THEN [err |-> NoError, stored |-> FALSE]
    ELSE IF file.field # "image"
    THEN [err |-> [code |-> "LIMIT_UNEXPECTED_FILE", multer |-> TRUE,
                   message |-> MsgUnexpectedField], stored |-> FALSE]
    ELSE IF file.size > FileSizeLimit
    THEN [err |-> [code |-> "LIMIT_FILE_SIZE", multer |-> TRUE,
                   message |-> "File too large"], stored |-> FALSE]
    ELSE IF file.format \notin AllowedFormats \/ ~hostOk
    THEN [err |-> [code |-> "cloudinary", multer |-> FALSE,
                   message |-> "upload failed"], stored |-> FALSE]
    ELSE [err |-> NoError, stored |-> TRUE]

\* The callback of safeUpload on an error, lines 37-48.
SafeUploadError(err) ==
    IF err.multer
    THEN IF err.code = "LIMIT_FILE_SIZE" THEN Bare(400, MsgTooLarge)
         ELSE Bare(400, err.message)
    ELSE Bare(500, MsgUploadError)

\* What the middleware of a route answers to an upload error: safeUpload
\* answers itself; upload.single mounted directly (lines 125, 270) passes the
\* error to next(), which reaches Express's default error handler.
MiddlewareError(mw, err) ==
    IF mw = "safeUpload" THEN SafeUploadError(err) ELSE DefaultErrorHandler(err)

-----------------------------------------------------------------------------
(* Routes *)

InFlight(i) == servers[i].connections > 0

\* The listening server takes a connection.
Accept(i) ==
    /\ IsRunning
    /\ HasHandle(servers[i])
    /\ servers[i].connections < MaxConnections
    /\ servers' = [servers EXCEPT ![i].connections = @ + 1]
    /\ last' = NoExchange
    /\ UNCHANGED <<expressMajor, db, store, listeners, proc, signalled,
                   forceTimer, seed>>

\* What a route step leaves in `last`: the route and its parameter, the
\* response, whether the route handler ran, the store and media-host calls it
\* issued in order, the public_id of the file the upload stored (0: none),
\* the file submitted, and the collections as they were before the step.
Exchange(route, param, resp, handler, calls, file, upload) ==
    [ route |-> route, param |-> param, status |-> resp.status,
      body |-> resp.body, handler |-> handler, calls |-> calls, file |-> file,
      upload |-> upload, before |-> collections ]

\* The response is written and the connection of server i ends.
Respond(i, x) ==
    /\ last' = x
    /\ servers' = [servers EXCEPT ![i].connections = @ - 1]
    /\ proc' = proc

\* A promise returned by a route handler rejects.  Express 5 passes the
\* reason to next(); Express 4 ignores the promise: nothing is written, the
\* request stays open and the rejection is unhandled.
HandlerRejected(i, x) ==
    IF expressMajor >= 5
    THEN Respond(i, [x EXCEPT !.status = DefaultErrorHandler([message |-> MsgDestroy]).status,
                              !.body = DefaultErrorHandler([message |-> MsgDestroy]).body])
    ELSE /\ last' = x
         /\ servers' = servers
         /\ proc' = UnhandledRejection(proc, listeners)

Call(op, arg, ok) == [op |-> op, arg |-> arg, ok |-> ok]
StoreOps == {"insertOne", "find", "findOne", "deleteOne", "countDocuments"}

\* The catch block of an image-bearing create, lines 141-147: the destroy is
\* awaited with no handler of its own, then the 400 is sent.
CreateCatch(i, route, fid, file, calls, message, destroyOk) ==
    LET issued == Append(calls, Call("destroy", fid, destroyOk))
        x == Exchange(route, <<>>, Enveloped(400, [message |-> message]),
                      TRUE, issued, fid, file)
    IN  IF destroyOk
        THEN /\ cloudinary' = (cloudinary \cup {fid}) \ {fid}
             /\ Respond(i, x)
        ELSE /\ cloudinary' = cloudinary \cup {fid}
             /\ HandlerRejected(i, [x EXCEPT !.status = 0, !.body = NoBody])

\* POST on an image-bearing collection: the middleware `mw`, then the handler
\* of lines 125-148 (services), 189-207 (banners), 270-291 (galleries).
PostImage(i, coll, route, mw, file, hostOk, storeOk, destroyOk) ==
    LET up == UploadSingle(file, hostOk)
        fid == nextFile + 1
        oid == nextId
    IN
    /\ IsRunning
    /\ InFlight(i)
    /\ IF up.err.code # "none"
       THEN /\ Respond(i, Exchange(route, <<>>, MiddlewareError(mw, up.err),
                                   FALSE, <<>>, 0, file))
            /\ UNCHANGED store
       ELSE IF ~up.stored
       THEN /\ Respond(i, Exchange(route, <<>>, Bare(400, MsgNoImage),
                                   mw # "safeUpload", <<>>, 0, file))
            /\ UNCHANGED store
       ELSE /\ nextFile < MaxUploads
            /\ nextFile' = fid
            /\ IF db = "undefined"
               THEN /\ CreateCatch(i, route, fid, file, <<>>, MsgDbUndefined, destroyOk)
                    /\ UNCHANGED <<collections, nextId>>
               ELSE IF storeOk
               THEN /\ nextId < MaxDocs
                    /\ nextId' = nextId + 1
                    /\ collections' = [collections EXCEPT ![coll] =
                                          @ \cup {[_id |-> oid, image |-> fid]}]
                    /\ cloudinary' = cloudinary \cup {fid}
                    /\ Respond(i, Exchange(route, <<>>,
                           Enveloped(201, [acknowledged |-> TRUE, insertedId |-> oid]),
                           TRUE, <<Call("insertOne", coll, TRUE)>>, fid, file))
               ELSE /\ CreateCatch(i, route, fid, file, <<Call("insertOne", coll, FALSE)>>,
                                   MsgStore, destroyOk)
                    /\ UNCHANGED <<collections, nextId>>
    /\ UNCHANGED <<expressMajor, db, listeners, signalled, forceTimer, seed>>

PostServices(i, file, hostOk, storeOk, destroyOk) ==
    PostImage(i, "services", "POST /api/services", "upload.single",
              file, hostOk, storeOk, destroyOk)

PostBanners(i, file, hostOk, storeOk, destroyOk) ==
    PostImage(i, "banners", "POST /api/banners", "safeUpload",
              file, hostOk, storeOk, destroyOk)

PostGalleries(i, file, hostOk, storeOk, destroyOk) ==
    PostImage(i, "galleries", "POST /api/galleries", "upload.single",
              file, hostOk, storeOk, destroyOk)

\* The outcome of one store call made through the module-level `db`:
\* reading db.collection of an undefined handle throws before any query.
StoreError(ok) ==
    IF db = "undefined" THEN MsgDbUndefined
    ELSE IF ~ok THEN MsgStore
    ELSE ""

StoreCalls(op, coll, ok) ==
    IF db = "undefined" THEN <<>> ELSE <<Call(op, coll, ok)>>

\* POST /api/faqs, lines 232-244.
PostFaqs(i, storeOk) ==
    LET route == "POST /api/faqs"
        err == StoreError(storeOk)
        calls == StoreCalls("insertOne", "faqs", storeOk)
    IN
    /\ IsRunning
    /\ InFlight(i)
    /\ IF err = ""
       THEN /\ nextId < MaxDocs
            /\ nextId' = nextId + 1
            /\ collections' = [collections EXCEPT !.faqs = @ \cup {[_id |-> nextId]}]
            /\ Respond(i, Exchange(route, <<>>,
                   Enveloped(201, [acknowledged |-> TRUE, insertedId |-> nextId]),
                   TRUE, calls, 0, NoFile))
       ELSE /\ Respond(i, Exchange(route, <<>>, Enveloped(400, [message |-> err]),
                                   TRUE, calls, 0, NoFile))
            /\ UNCHANGED <<collections, nextId>>
    /\ UNCHANGED <<expressMajor, db, cloudinary, nextFile, listeners, signalled,
                   forceTimer, seed>>

\* find({}).toArray(): a JavaScript array, which has no `message` property.
ToArray(docs) == [length |-> Cardinality(docs), items |-> docs]

\* GET /api/services, /api/banners, /api/faqs, /api/galleries:
\* lines 150-157, 209-216, 246-253, 294-301.
GetList(i, coll, route, storeOk) ==
    LET err == StoreError(storeOk)
    IN
    /\ IsRunning
    /\ InFlight(i)
    /\ Respond(i, Exchange(route, <<>>,
           IF err = "" THEN Enveloped(200, ToArray(collections[coll]))
           ELSE Enveloped(400, [message |-> err]),
           TRUE, StoreCalls("find", coll, storeOk), 0, NoFile))
    /\ UNCHANGED <<expressMajor, db, store, listeners, signalled, forceTimer,
                   seed>>

GetServices(i, storeOk) == GetList(i, "services", "GET /api/services", storeOk)
GetBanners(i, storeOk) == GetList(i, "banners", "GET /api/banners", storeOk)
GetFaqs(i, storeOk) == GetList(i, "faqs", "GET /api/faqs", storeOk)
GetGalleries(i, storeOk) == GetList(i, "galleries", "GET /api/galleries", storeOk)

\* Faulty variant: a filter that matches every document.  C5 must fail with it.
ById_NoFilter(coll, id) == collections[coll]

\* The documents of a collection whose _id is the ObjectId the string denotes.
ById(coll, id) == {d \in collections[coll] : d._id = ParseHex(id)}

\* Faulty variant: the lookup without the ObjectId.isValid check of line 161,
\* so that the constructor throws into the catch of line 172.  C6 must fail
\* with it.
ServiceLookup_NoIdCheck(id, storeOk) ==
    IF ~isValid(id)
    THEN [resp |-> Enveloped(500, [message |-> MsgBson]), calls |-> <<>>]
    ELSE IF StoreError(storeOk) # ""
    THEN [resp |-> Enveloped(500, [message |-> StoreError(storeOk)]),
          calls |-> StoreCalls("findOne", "services", storeOk)]
    ELSE IF ById("services", id) = {}
    THEN [resp |-> Bare(404, MsgNotFound),
          calls |-> StoreCalls("findOne", "services", storeOk)]
    ELSE [resp |-> Enveloped(200, CHOOSE d \in ById("services", id) : TRUE),
          calls |-> StoreCalls("findOne", "services", storeOk)]

\* The answer of GET /api/services/:id, lines 159-175, and the calls it made.
ServiceLookup(id, storeOk) ==
    IF ~isValid(id)
    THEN [resp |-> Bare(400, MsgInvalidId), calls |-> <<>>]
    ELSE IF StoreError(storeOk) # ""
    THEN [resp |-> Enveloped(500, [message |-> StoreError(storeOk)]),
          calls |-> StoreCalls("findOne", "services", storeOk)]
    ELSE IF ById("services", id) = {}
    THEN [resp |-> Bare(404, MsgNotFound), calls |-> StoreCalls("findOne", "services", storeOk)]
    ELSE [resp |-> Enveloped(200, CHOOSE d \in ById("services", id) : TRUE),
          calls |-> StoreCalls("findOne", "services", storeOk)]

GetServiceById(i, id, storeOk) ==
    LET r == ServiceLookup(id, storeOk)
    IN
    /\ IsRunning
    /\ InFlight(i)
    /\ Respond(i, Exchange("GET /api/services/:id", id, r.resp, TRUE, r.calls, 0, NoFile))
    /\ UNCHANGED <<expressMajor, db, store, listeners, signalled, forceTimer,
                   seed>>

\* What makes deleteOne({ _id: new ObjectId(req.params.id) }) throw, in the
\* order of evaluation: db.collection, then the ObjectId constructor, then
\* the query itself.
DeleteError(id, storeOk) ==
    IF db = "undefined" THEN MsgDbUndefined
    ELSE IF ~isValid(id) THEN MsgBson
    ELSE IF ~storeOk THEN MsgStore
    ELSE ""

DeleteCalls(coll, id, ok) ==
    IF db = "undefined" \/ ~isValid(id) THEN <<>>
    ELSE <<Call("deleteOne", coll, ok)>>

\* DELETE /api/<collection>/:id: lines 176-183, 217-224, 254-261, 302-309.
DeleteById(i, coll, route, id, storeOk) ==
    LET err == DeleteError(id, storeOk)
    IN
    /\ IsRunning
    /\ InFlight(i)
    /\ IF err = ""
       THEN /\ collections' = [collections EXCEPT ![coll] = @ \ ById(coll, id)]
            /\ Respond(i, Exchange(route, id,
                   Enveloped(200, [acknowledged |-> TRUE,
                                   deletedCount |-> Cardinality(ById(coll, id))]),
                   TRUE, DeleteCalls(coll, id, storeOk), 0, NoFile))
       ELSE /\ Respond(i, Exchange(route, id, Enveloped(400, [message |-> err]),
                                   TRUE, DeleteCalls(coll, id, storeOk), 0, NoFile))
            /\ UNCHANGED collections
    /\ UNCHANGED <<expressMajor, db, cloudinary, nextId, nextFile, listeners,
                   signalled, forceTimer, seed>>

DeleteServices(i, id, storeOk) ==
    DeleteById(i, "services", "DELETE /api/services/:id", id, storeOk)
DeleteBanners(i, id, storeOk) ==
    DeleteById(i, "banners", "DELETE /api/banners/:id", id, storeOk)
DeleteFaqs(i, id, storeOk) ==
    DeleteById(i, "faqs", "DELETE /api/faqs/:id", id, storeOk)
DeleteGalleries(i, id, storeOk) ==
    DeleteById(i, "galleries", "DELETE /api/galleries/:id", id, storeOk)

\* GET /api/dashboard-stats, lines 317-334.
DashboardStats(i, storeOk) ==
    LET err == StoreError(storeOk)
        counts == [ totalServices |-> Cardinality(collections.services),
                    totalBanners |-> Cardinality(collections.banners),
                    totalFaqs |-> Cardinality(collections.faqs),
                    totalGalleries |-> Cardinality(collections.galleries) ]
    IN
    /\ IsRunning
    /\ InFlight(i)
    /\ Respond(i, Exchange("GET /api/dashboard-stats", <<>>,
           IF err = "" THEN Enveloped(200, counts)
           ELSE Enveloped(400, [message |-> err]),
           TRUE, StoreCalls("countDocuments", "services", storeOk), 0, NoFile))
    /\ UNCHANGED <<expressMajor, db, store, listeners, signalled, forceTimer,
                   seed>>

Emails == {AdminEmail, "nobody@example.com"}
Passwords == {AdminPassword, "letmein"}

NoUser == [email |-> Undefined, password |-> Undefined, _id |-> 0]

\* jwt.sign({ email: user.email }, "jwt-secret", { expiresIn: '100d' })
Sign(claims) == [claims |-> claims, secret |-> JwtSecret, expiresIn |-> JwtExpiresIn]

\* The body of the try block of POST /api/login, lines 344-353, once findOne
\* has returned `user` (NoUser stands for null): the token is signed from
\* user.email first, which throws on null and lands in the catch of line 355.
LoginAnswer(user, password) ==
    IF user = NoUser
    THEN Enveloped(400, [message |-> MsgUserNull])
    ELSE LET token == Sign([email |-> user.email])
         IN  IF user = NoUser
             THEN Enveloped(401, [message |-> MsgInvalidEmail])
             ELSE IF user.password # password
             THEN Enveloped(401, [message |-> MsgInvalidPassword])
             ELSE Enveloped(200, [user |-> user, token |-> token])

FindUser(email) ==
    IF \E u \in collections.users : u.email = email
    THEN CHOOSE u \in collections.users : u.email = email
    ELSE NoUser

\* POST /api/login, lines 341-357.
Login(i, email, password, storeOk) ==
    LET err == StoreError(storeOk)
    IN
    /\ IsRunning
    /\ InFlight(i)
    /\ Respond(i, Exchange("POST /api/login", <<email, password>>,
           IF err # "" THEN Enveloped(400, [message |-> err])
           ELSE LoginAnswer(FindUser(email), password),
           TRUE, StoreCalls("findOne", "users", storeOk), 0, NoFile))
    /\ UNCHANGED <<expressMajor, db, store, listeners, signalled, forceTimer,
                   seed>>

\* GET /, lines 117-119.
Root(i) ==
    /\ IsRunning
    /\ InFlight(i)
    /\ Respond(i, Exchange("GET /", <<>>,
           [status |-> 200, body |-> TextBody("Server is running successfully!")],
           TRUE, <<>>, 0, NoFile))
    /\ UNCHANGED <<expressMajor, db, store, listeners, signalled, forceTimer,
                   seed>>

-----------------------------------------------------------------------------
(* Specification *)

Servers == 1..Len(servers)

Next ==
    \/ \E i \in Servers : OnListenError(i)
    \/ \E sig \in {"SIGTERM", "SIGINT"} : Signal(sig)
    \/ \E i \in Servers : EmitClose(i)
    \/ ForceTimeout
    \/ Restart
    \/ \E ok \in BOOLEAN : ConnectToMongo(ok)
    \/ \E ok \in BOOLEAN : SeedFindOne(ok)
    \/ \E ok \in BOOLEAN : SeedInsertOne(ok)
    \/ \E i \in Servers : Accept(i)
    \/ \E i \in Servers, f \in Files, h, s, d \in BOOLEAN : PostServices(i, f, h, s, d)
    \/ \E i \in Servers, f \in Files, h, s, d \in BOOLEAN : PostBanners(i, f, h, s, d)
    \/ \E i \in Servers, f \in Files, h, s, d \in BOOLEAN : PostGalleries(i, f, h, s, d)
    \/ \E i \in Servers, s \in BOOLEAN : PostFaqs(i, s)
    \/ \E i \in Servers, s \in BOOLEAN : GetServices(i, s)
    \/ \E i \in Servers, s \in BOOLEAN : GetBanners(i, s)
    \/ \E i \in Servers, s \in BOOLEAN : GetFaqs(i, s)
    \/ \E i \in Servers, s \in BOOLEAN : GetGalleries(i, s)
    \/ \E i \in Servers, id \in ReqIds, s \in BOOLEAN : GetServiceById(i, id, s)
    \/ \E i \in Servers, id \in ReqIds, s \in BOOLEAN : DeleteServices(i, id, s)
    \/ \E i \in Servers, id \in ReqIds, s \in BOOLEAN : DeleteBanners(i, id, s)
    \/ \E i \in Servers, id \in ReqIds, s \in BOOLEAN : DeleteFaqs(i, id, s)
    \/ \E i \in Servers, id \in ReqIds, s \in BOOLEAN : DeleteGalleries(i, id, s)
    \/ \E i \in Servers, s \in BOOLEAN : DashboardStats(i, s)
    \/ \E i \in Servers, e \in Emails, p \in Passwords, s \in BOOLEAN : Login(i, e, p, s)
    \/ \E i \in Servers : Root(i)

Spec == Init /\ [][Next]_vars

-----------------------------------------------------------------------------
(* Vocabulary of the properties *)

CreateImageRoutes ==
    {"POST /api/services", "POST /api/banners", "POST /api/galleries"}
DeleteRoutes ==
    {"DELETE /api/services/:id", "DELETE /api/banners/:id",
     "DELETE /api/faqs/:id", "DELETE /api/galleries/:id"}
ByIdRoutes == DeleteRoutes \cup {"GET /api/services/:id"}

CollectionOf(route) ==
    CASE route \in {"POST /api/services", "DELETE /api/services/:id",
                    "GET /api/services/:id"} -> "services"
      [] route \in {"POST /api/banners", "DELETE /api/banners/:id"} -> "banners"
      [] route \in {"POST /api/galleries", "DELETE /api/galleries/:id"} -> "galleries"
      [] OTHER -> "faqs"

Calls(op) == {k \in DOMAIN last.calls : last.calls[k].op = op}
Issued(op) == Calls(op) # {}
Succeeded(op) == \E k \in Calls(op) : last.calls[k].ok
Failed(op) == \E k \in Calls(op) : ~last.calls[k].ok
StoreCallIssued == \E k \in DOMAIN last.calls : last.calls[k].op \in StoreOps

IsJson == last.body.format = "json"
IsEnvelope == IsJson /\ {"status", "result"} \subseteq DOMAIN last.body.json
MessageIs(m) ==
    /\ IsJson
    /\ "message" \in DOMAIN last.body.json
    /\ last.body.json.message = m

\* The upload stored a file and the insertOne that followed failed.
UploadedButNotInserted ==
    /\ last.route \in CreateImageRoutes
    /\ last.file # 0
    /\ Failed("insertOne")

InFlightConnections == \E i \in Servers : servers[i].connections > 0

-----------------------------------------------------------------------------
(* Properties *)

\* C1: on an image-bearing create whose upload succeeded and whose insert
\* failed, the handler issues a destroy of that very file, answers 400 with
\* the insert's error message, and adds no document.
C1_CompensatedCreate ==
    UploadedButNotInserted =>
        /\ \E k \in Calls("destroy") : last.calls[k].arg = last.file
        /\ last.status = 400
        /\ IsEnvelope
        /\ MessageIs(MsgStore)
        /\ collections = last.before

\* C2: when the compensating destroy itself fails, the failure is swallowed:
\* the request still gets its 400 with the insert's error, and the process
\* keeps running.
C2_DestroyFailureSwallowed ==
    (UploadedButNotInserted /\ Failed("destroy")) =>
        /\ last.status = 400
        /\ MessageIs(MsgStore)
        /\ proc.state = "running"

\* C3: an image-bearing create whose file exceeds 5 MiB is answered 400
\* "File too large. Maximum 5MB allowed.", the route handler inserts nothing
\* and no remote file persists.
C3_OversizedRejected ==
    (last.route \in CreateImageRoutes /\ last.upload.size > FileSizeLimit) =>
        /\ last.status = 400
        /\ MessageIs(MsgTooLarge)
        /\ ~Issued("insertOne")
        /\ collections = last.before
        /\ last.file = 0

\* C4: a login whose lookup completed is answered from the credentials and
\* the stored record alone: no record 401 "Invalid email address", a wrong
\* password 401 "Invalid password", a match 200 with a token for the email.
C4_LoginOutcomes ==
    (last.route = "POST /api/login" /\ Succeeded("findOne")) =>
        LET email == last.param[1]
            password == last.param[2]
            known == {u \in collections.users : u.email = email}
        IN  IF known = {}
            THEN last.status = 401 /\ MessageIs(MsgInvalidEmail)
            ELSE IF \A u \in known : u.password # password
            THEN last.status = 401 /\ MessageIs(MsgInvalidPassword)
            ELSE /\ last.status = 200
                 /\ IsEnvelope
                 /\ last.body.json.result.token.claims.email = email

\* What a delete that went through leaves: the count of the documents that
\* had the identifier (zero or one), none of them any more, the rest of the
\* collection and every other collection as before.
DeleteEffect ==
    LET coll == CollectionOf(last.route)
        hit == {d \in last.before[coll] : d._id = ParseHex(last.param)}
    IN  /\ last.status = 200
        /\ IsEnvelope
        /\ last.body.json.result.deletedCount = Cardinality(hit)
        /\ Cardinality(hit) \in {0, 1}
        /\ collections[coll] = last.before[coll] \ hit
        /\ \A d \in collections[coll] : d._id # ParseHex(last.param)
        /\ \A c \in CollectionNames \ {coll} : collections[c] = last.before[c]

\* C5 as stated: every delete request, whatever its identifier, is answered
\* 200 with a delete result of zero or one, and removes that document alone.
C5_EveryDeleteIs200 ==
    last.route \in DeleteRoutes =>
        /\ last.status = 200
        /\ IsEnvelope
        /\ "deletedCount" \in DOMAIN last.body.json.result
        /\ last.body.json.result.deletedCount \in {0, 1}

\* C5 amended: a delete is never answered 404; with a well-formed identifier
\* and a store call that succeeds it is answered 200 with the delete result
\* (zero or one) and removes that document alone, whether or not it existed;
\* otherwise it is answered 400 and the collections are unchanged.
C5_DeleteWellFormed ==
    last.route \in DeleteRoutes =>
        /\ last.status # 404
        /\ IF isValid(last.param) /\ Succeeded("deleteOne")
           THEN DeleteEffect
           ELSE last.status = 400 /\ collections = last.before

\* A delete removed an existing document and left another one in the same
\* collection.
C5_Witness ==
    /\ last.route \in DeleteRoutes
    /\ last.status = 200
    /\ last.body.json.result.deletedCount = 1
    /\ collections[CollectionOf(last.route)] # {}

C7_GracefulShutdown ==
    /\ signalled => \A i \in Servers : ~HasHandle(servers[i])
    /\ (proc.state = "exited" /\ signalled /\ proc.cause = "serverClosed") =>
          ~InFlightConnections

\* C8: the users collection never holds more than one admin document, and
\* after any run of seedAdmin whose store calls succeeded (the first, or one
\* that follows an earlier run on the same store) it holds exactly one.
C8_SeedIdempotent ==
    /\ Cardinality(AdminDocs(collections.users)) <= 1
    /\ seed \in {"exists", "seeded"} => Cardinality(AdminDocs(collections.users)) = 1

\* seedAdmin ran against a store an earlier run had seeded, with requests
\* served since.
C8_Witness ==
    /\ seed = "exists"
    /\ Cardinality(AdminDocs(collections.users)) = 1
    /\ last.route = "POST /api/login"
    /\ last.status = 200

\* C9: every JSON response of a route other than GET / is the envelope
\* {status, result, message}, whose status is the HTTP status and whose
\* message is the payload's.
C9_EveryJsonEnveloped ==
    (last.route \notin {"none", "GET /"} /\ IsJson) =>
        /\ IsEnvelope
        /\ last.body.json.status = last.status
        /\ "message" \in DOMAIN last.body.json.result =>
              MessageIs(last.body.json.result.message)

\* C10: an unhandled rejection is logged only and never ends the process.
C10_RejectionNeverExits ==
    proc.rejection => proc.state = "running"

====
